---- MODULE Spec2Model ----
(***************************************************************************)
(* DiscreteContactCheckTask (tesseract_task_composer): construction,       *)
(* runImpl and the comparison operators, as a state machine.               *)
(*                                                                         *)
(* Strings that the properties inspect (Report messages, constructor       *)
(* errors) are sequences of words, so that "the message contains ..." is a *)
(* sub-sequence test.                                                      *)
(***************************************************************************)
EXTENDS Integers, Sequences, FiniteSets, TLC

\* ------------------------------------------------------------- bounds
MaxKeys == 2        \* longest 'inputs' list a configuration is parsed into
MaxSamples == 2     \* longest per-sample contact vector the validator fills

\* ------------------------------------------------------------- values
Slots == {1, 2}
Names == {"A", "B"}
Keys == {"k1", "k2"}
DefaultName == "DiscreteContactCheckTask"
DEFAULT_PROFILE_KEY == "DEFAULT"
DeclaredProfiles == {"", "P1"}

RECURSIVE SeqsUpTo(_, _)
SeqsUpTo(S, n) ==
  IF n = 0 THEN {<<>>}
  ELSE LET shorter == SeqsUpTo(S, n - 1)
       IN shorter \cup {Append(s, x) : s \in {t \in shorter : Len(t) = n - 1}, x \in S}

Contains(msg, sub) ==
  \E i \in 1..(Len(msg) - Len(sub) + 1) : SubSeq(msg, i, i + Len(sub) - 1) = sub

\* Values a data-store slot can hold (tesseract_common::AnyPoly).
CompositeType == "CompositeInstruction"
Null == [type |-> "null", profile |-> "", overrides |-> FALSE, description |-> ""]
WrongType == [type |-> "JointWaypoint", profile |-> "", overrides |-> FALSE, description |-> ""]
Composite(p, o) == [type |-> CompositeType, profile |-> p, overrides |-> o, description |-> "traj"]
StoreValues == {Null, WrongType} \cup {Composite(p, o) : p \in DeclaredProfiles, o \in BOOLEAN}

\* Profiles (ContactCheckProfile values).
NullProfile == [contact_manager_config |-> "nullptr", overridden |-> FALSE]
DefaultConstructedProfile == [contact_manager_config |-> "default_constructed", overridden |-> FALSE]
StoredProfile(entry) == [contact_manager_config |-> entry[2], overridden |-> FALSE]
MakeRegistry(entries) == [e \in entries |-> StoredProfile(e)]

\* The environment handle and the contact manager obtained from it.
Env == [links |-> {"L1", "L2"}, contact_config |-> "scene"]
NoEnv == [links |-> {}, contact_config |-> "none"]
NoManager == [active |-> {}, config |-> NullProfile]

\* Per-sample contact data written by the validator.
Contact == [link_names |-> <<"L1", "L2">>, distance |-> -1]
ContactMaps == {{}, {Contact}}
ContactVectors == SeqsUpTo(ContactMaps, MaxSamples)

\* Contexts (TaskComposerInput) a caller can supply.
Remappings ==
  { {},
    {<<"A", "", "P2">>},
    {<<"A", "P1", "P2">>, <<"B", DEFAULT_PROFILE_KEY, "P1">>} }
Registries ==
  { MakeRegistry({}),
    MakeRegistry({<<"A", "P1">>, <<"B", DEFAULT_PROFILE_KEY>>}),
    MakeRegistry({<<"A", "P2">>, <<"A", DEFAULT_PROFILE_KEY>>, <<DefaultName, DEFAULT_PROFILE_KEY>>}) }
Contexts ==
  [env : {Env}, data_storage : [Keys -> StoreValues], remapping : Remappings,
   profiles : Registries, aborted : BOOLEAN]
PeerContexts ==
  [env : {Env},
   data_storage : {[k \in Keys |-> IF k = "k1" THEN Composite("", FALSE) ELSE Null]},
   remapping : {{}}, profiles : {MakeRegistry({})}, aborted : BOOLEAN]
NoInput ==
  [env |-> NoEnv, data_storage |-> [k \in Keys |-> Null], remapping |-> {},
   profiles |-> MakeRegistry({}), aborted |-> FALSE]

\* Declarative configurations, as TaskComposerTask's constructor parses them.
Configs == [conditional : BOOLEAN, inputs : SeqsUpTo(Keys, MaxKeys)]

\* Messages.
MsgAborted == <<"Aborted">>
MsgInvalidInput ==
  <<"Input", "seed", "to", "DiscreteContactCheckTask", "must", "be", "a", "composite", "instruction">>
MsgNotContactFree(description) ==
  <<"Results", "are", "not", "contact", "free", "for", "process", "input:", description>>
MsgSucceeded == <<"Discrete", "contact", "check", "succeeded">>
NoError == <<>>
ErrMissingInputs == <<"DiscreteContactCheckTask,", "config", "missing", "'inputs'", "entry">>
ErrOnlyOneInput ==
  <<"DiscreteContactCheckTask,", "config", "'inputs'", "entry", "currently", "only", "supports",
    "one", "input", "key">>

NoPre ==
  [env |-> NoEnv, data_storage |-> NoInput.data_storage, profiles |-> NoInput.profiles,
   aborted |-> FALSE]
NoNode == [built |-> FALSE, name |-> "", is_conditional |-> FALSE, input_keys |-> <<>>]
NoCtor == [kind |-> "none", parsed |-> <<>>, error |-> NoError]
NoInfo ==
  [return_value |-> 0, message |-> <<>>, env |-> NoEnv, contact_results |-> <<>>, timed |-> FALSE]
NoSpy ==
  [abort_reads |-> 0, abort_seen |-> FALSE, store_reads |-> 0, bad_index |-> FALSE,
   resolutions |-> 0, validator_calls |-> 0, reports |-> 0]

Terminals == {"Aborted", "InvalidInput", "Clear", "NotClear"}

VARIABLES
  nodes,                  \* slot -> the task object built there (or NoNode)
  ctor,                   \* slot -> the last construction attempted there
  input,                  \* the TaskComposerInput of the current invocation
  pc,                     \* position of the current invocation of runImpl
  self,                   \* slot of the node being run
  info,                   \* the DiscreteContactCheckTaskInfo being filled
  input_data_poly,        \* local of runImpl
  profile,                \* local of runImpl
  cur_composite_profile,  \* local of runImpl
  manager,                \* local of runImpl
  contacts,               \* local of runImpl
  spy,                    \* what the invocation has touched so far
  trace,                  \* stages the invocation has executed, in order
  pre,                    \* the context as it was handed to the invocation
  cmp0                    \* operator== of the two nodes when both were built

vars ==
  <<nodes, ctor, input, pc, self, info, input_data_poly, profile, cur_composite_profile,
    manager, contacts, spy, trace, pre, cmp0>>

locals == <<input_data_poly, profile, cur_composite_profile, manager, contacts>>

\* ------------------------------------------------- collaborators' contracts
\* TaskComposerDataStorage::getData: the stored value, or a null AnyPoly.
getData(data_storage, key) ==
  IF key \in DOMAIN data_storage THEN data_storage[key] ELSE Null

\* getProfileString: the default name stands in for an empty declared one;
\* an entry of the remapping table for the task's namespace and the declared
\* name replaces it (one level, never remapped again).
getProfileString(ns, declared, remapping) ==
  LET results == IF declared = "" THEN DEFAULT_PROFILE_KEY ELSE declared
  IN IF \E t \in remapping : t[1] = ns /\ t[2] = declared
     THEN (CHOOSE t \in remapping : t[1] = ns /\ t[2] = declared)[3]
     ELSE results

\* getProfile: the registry's entry, or the default handed in.
getProfile(ns, name, profiles, default_profile) ==
  IF <<ns, name>> \in DOMAIN profiles THEN profiles[<<ns, name>>] ELSE default_profile

\* applyProfileOverrides: a new profile value when the instruction carries an
\* override, the given one otherwise.
applyProfileOverrides(ns, name, p, overrides) ==
  IF overrides THEN [p EXCEPT !.overridden = TRUE] ELSE p

\* contactCheckProgram's return value for the contact vector it filled.
contactCheckProgram(cv) == \E i \in 1..Len(cv) : cv[i] # {}

\* TaskComposerTask::operator== on the fields the node type carries.
TaskComposerTask_eq(a, b) ==
  /\ a.name = b.name
  /\ a.is_conditional = b.is_conditional
  /\ a.input_keys = b.input_keys

\* ------------------------------------------------------- operator==, !=
\* Faulty variant: the base-class comparison is left out.
operatorEq_ignoresBase(a, b) == TRUE

operatorEq(a, b) ==
  LET equal == TRUE
  IN equal /\ TaskComposerTask_eq(a, b)

operatorNeq(a, b) == ~operatorEq(a, b)

Compared(ns) ==
  IF ns[1].built /\ ns[2].built THEN <<operatorEq(ns[1], ns[2])>> ELSE <<>>

\* ------------------------------------------------------------- construction
Built(i, node, how) ==
  /\ nodes' = [nodes EXCEPT ![i] = node]
  /\ ctor' = [ctor EXCEPT ![i] = how]
  /\ cmp0' = Compared([nodes EXCEPT ![i] = node])

DefaultConstruct(i) ==
  /\ ~nodes[i].built
  /\ Built(i,
           [built |-> TRUE, name |-> DefaultName, is_conditional |-> TRUE, input_keys |-> <<>>],
           [kind |-> "default", parsed |-> <<>>, error |-> NoError])
  /\ UNCHANGED <<input, pc, self, info, locals, spy, trace, pre>>

DirectConstruct(i, name, input_key, is_conditional) ==
  /\ ~nodes[i].built
  /\ Built(i,
           [built |-> TRUE, name |-> name, is_conditional |-> is_conditional,
            input_keys |-> Append(<<>>, input_key)],
           [kind |-> "direct", parsed |-> <<>>, error |-> NoError])
  /\ UNCHANGED <<input, pc, self, info, locals, spy, trace, pre>>

\* Faulty variant: the size test is off by one.
ConfigConstruct_allowsTwo(i, name, config) ==
  /\ ~nodes[i].built
  /\ LET input_keys == config.inputs
     IN IF Len(input_keys) = 0
        THEN Built(i, NoNode, [kind |-> "config", parsed |-> input_keys, error |-> ErrMissingInputs])
        ELSE IF Len(input_keys) > 2
        THEN Built(i, NoNode, [kind |-> "config", parsed |-> input_keys, error |-> ErrOnlyOneInput])
        ELSE Built(i,
                   [built |-> TRUE, name |-> name, is_conditional |-> config.conditional,
                    input_keys |-> input_keys],
                   [kind |-> "config", parsed |-> input_keys, error |-> NoError])
  /\ UNCHANGED <<input, pc, self, info, locals, spy, trace, pre>>

ConfigConstruct(i, name, config) ==
  /\ ~nodes[i].built
  /\ LET input_keys == config.inputs
     IN IF Len(input_keys) = 0
        THEN Built(i, NoNode, [kind |-> "config", parsed |-> input_keys, error |-> ErrMissingInputs])
        ELSE IF Len(input_keys) > 1
        THEN Built(i, NoNode, [kind |-> "config", parsed |-> input_keys, error |-> ErrOnlyOneInput])
        ELSE Built(i,
                   [built |-> TRUE, name |-> name, is_conditional |-> config.conditional,
                    input_keys |-> input_keys],
                   [kind |-> "config", parsed |-> input_keys, error |-> NoError])
  /\ UNCHANGED <<input, pc, self, info, locals, spy, trace, pre>>

\* ------------------------------------------------------------------ runImpl
\* The caller hands a context to run(); nothing of runImpl has executed yet.
Invoke(i, ctx) ==
  /\ nodes[i].built
  /\ pc = "Idle"
  /\ input' = ctx
  /\ self' = i
  /\ pc' = "Start"
  /\ info' = NoInfo
  /\ input_data_poly' = Null
  /\ profile' = ""
  /\ cur_composite_profile' = NullProfile
  /\ manager' = NoManager
  /\ contacts' = <<>>
  /\ spy' = NoSpy
  /\ trace' = <<>>
  /\ pre' = [env |-> ctx.env, data_storage |-> ctx.data_storage, profiles |-> ctx.profiles,
             aborted |-> ctx.aborted]
  /\ UNCHANGED <<nodes, ctor, cmp0>>

\* The caller has taken the Report; the context and the locals are gone.
Release ==
  /\ pc \in Terminals
  /\ pc' = "Idle"
  /\ input' = NoInput
  /\ info' = NoInfo
  /\ input_data_poly' = Null
  /\ profile' = ""
  /\ cur_composite_profile' = NullProfile
  /\ manager' = NoManager
  /\ contacts' = <<>>
  /\ spy' = NoSpy
  /\ trace' = <<>>
  /\ pre' = NoPre
  /\ UNCHANGED <<nodes, ctor, self, cmp0>>

\* Another thread raises the abort flag while the invocation is under way.
SetAbort ==
  /\ pc \in {"Start", "AbortCheck", "InputValidation", "ProfileResolution", "Validation"}
  /\ ~input.aborted
  /\ input' = [input EXCEPT !.aborted = TRUE]
  /\ UNCHANGED <<nodes, ctor, pc, self, info, locals, spy, trace, pre, cmp0>>

\* Lines 67-69: the Report is allocated and bound to the environment.
Start ==
  /\ pc = "Start"
  /\ info' = [NoInfo EXCEPT !.return_value = 0, !.env = input.env]
  /\ pc' = "AbortCheck"
  /\ trace' = Append(trace, "Start")
  /\ UNCHANGED <<nodes, ctor, input, self, locals, spy, pre, cmp0>>

\* Faulty variant: the abort branch does not return.
AbortCheck_fallsThrough ==
  /\ pc = "AbortCheck"
  /\ trace' = Append(trace, "AbortCheck")
  /\ spy' = [spy EXCEPT !.abort_reads = @ + 1, !.abort_seen = input.aborted]
  /\ info' = IF input.aborted THEN [info EXCEPT !.message = MsgAborted] ELSE info
  /\ pc' = "InputValidation"
  /\ UNCHANGED <<nodes, ctor, input, self, locals, pre, cmp0>>

\* Lines 71-78: the cancellation point.
AbortCheck ==
  /\ pc = "AbortCheck"
  /\ trace' = Append(trace, "AbortCheck")
  /\ IF input.aborted
     THEN /\ info' = [info EXCEPT !.message = MsgAborted]
          /\ pc' = "Aborted"
          /\ spy' = [spy EXCEPT !.abort_reads = @ + 1, !.abort_seen = TRUE, !.reports = @ + 1]
     ELSE /\ info' = info
          /\ pc' = "InputValidation"
          /\ spy' = [spy EXCEPT !.abort_reads = @ + 1, !.abort_seen = FALSE]
  /\ UNCHANGED <<nodes, ctor, input, self, locals, pre, cmp0>>

\* Faulty variant: only the null test guards the cast.
TypeGuard_noTypeCheck(v) ==
  /\ input_data_poly' = v
  /\ IF v = Null
     THEN /\ info' = [info EXCEPT !.message = MsgInvalidInput, !.timed = TRUE]
          /\ pc' = "InvalidInput"
          /\ spy' = [spy EXCEPT !.store_reads = @ + 1, !.reports = @ + 1,
                                !.bad_index = (nodes[self].input_keys = <<>>)]
     ELSE /\ info' = info
          /\ pc' = "ProfileResolution"
          /\ spy' = [spy EXCEPT !.store_reads = @ + 1,
                                !.bad_index = (nodes[self].input_keys = <<>>)]

\* Lines 84-90 (and the fall-through to line 93) for the value fetched.
TypeGuard(v) ==
  /\ input_data_poly' = v
  /\ IF v = Null \/ v.type # CompositeType
     THEN /\ info' = [info EXCEPT !.message = MsgInvalidInput, !.timed = TRUE]
          /\ pc' = "InvalidInput"
          /\ spy' = [spy EXCEPT !.store_reads = @ + 1, !.reports = @ + 1,
                                !.bad_index = (nodes[self].input_keys = <<>>)]
     ELSE /\ info' = info
          /\ pc' = "ProfileResolution"
          /\ spy' = [spy EXCEPT !.store_reads = @ + 1,
                                !.bad_index = (nodes[self].input_keys = <<>>)]

\* Lines 83-90. input_keys_[0] of a node without keys is an out-of-range
\* access: the process faults, or some unrelated value is read in its place.
InputValidation ==
  /\ pc = "InputValidation"
  /\ trace' = Append(trace, "InputValidation")
  /\ IF nodes[self].input_keys = <<>>
     THEN \/ /\ pc' = "Fault"
             /\ spy' = [spy EXCEPT !.bad_index = TRUE]
             /\ UNCHANGED <<info, input_data_poly>>
          \/ \E v \in StoreValues : TypeGuard(v)
     ELSE TypeGuard(getData(input.data_storage, nodes[self].input_keys[1]))
  /\ UNCHANGED <<nodes, ctor, input, self, profile, cur_composite_profile, manager, contacts,
                 pre, cmp0>>

\* Faulty variant: no default profile is handed to getProfile.
Resolved_noDefault(ns, ci, remapping, profiles) ==
  LET name == getProfileString(ns, ci.profile, remapping)
      base == getProfile(ns, name, profiles, NullProfile)
  IN [profile |-> name,
      cur_composite_profile |-> applyProfileOverrides(ns, name, base, ci.overrides)]

\* Lines 94-98 as a value: the resolved name and the effective profile.
Resolved(ns, ci, remapping, profiles) ==
  LET name == getProfileString(ns, ci.profile, remapping)
      base == getProfile(ns, name, profiles, DefaultConstructedProfile)
  IN [profile |-> name,
      cur_composite_profile |-> applyProfileOverrides(ns, name, base, ci.overrides)]

\* Faulty variant: the override is applied to the registry's entry in place.
ProfileResolution_storesOverride ==
  /\ pc = "ProfileResolution"
  /\ trace' = Append(trace, "ProfileResolution")
  /\ LET ns == nodes[self].name
         r == Resolved(ns, input_data_poly, input.remapping, input.profiles)
     IN /\ profile' = r.profile
        /\ cur_composite_profile' = r.cur_composite_profile
        /\ input' = [input EXCEPT !.profiles =
                       [e \in DOMAIN input.profiles |->
                          IF e = <<ns, r.profile>> THEN r.cur_composite_profile
                          ELSE input.profiles[e]]]
  /\ spy' = [spy EXCEPT !.resolutions = @ + 1]
  /\ pc' = "Validation"
  /\ UNCHANGED <<nodes, ctor, self, info, input_data_poly, manager, contacts, pre, cmp0>>

\* Lines 92-98.
ProfileResolution ==
  /\ pc = "ProfileResolution"
  /\ trace' = Append(trace, "ProfileResolution")
  /\ LET r == Resolved(nodes[self].name, input_data_poly, input.remapping, input.profiles)
     IN /\ profile' = r.profile
        /\ cur_composite_profile' = r.cur_composite_profile
  /\ spy' = [spy EXCEPT !.resolutions = @ + 1]
  /\ pc' = "Validation"
  /\ UNCHANGED <<nodes, ctor, input, self, info, input_data_poly, manager, contacts, pre, cmp0>>

\* Faulty variant: the contact vector is not attached to the Report.
Verdict_keepsNoContacts(cv) ==
  /\ contacts' = cv
  /\ IF contactCheckProgram(cv)
     THEN /\ info' = [info EXCEPT !.message = MsgNotContactFree(input_data_poly.description),
                                  !.timed = TRUE]
          /\ pc' = "NotClear"
     ELSE /\ info' = [info EXCEPT !.message = MsgSucceeded, !.return_value = 1, !.timed = TRUE]
          /\ pc' = "Clear"

\* Lines 109-129 for the contact vector the validator filled.
Verdict(cv) ==
  /\ contacts' = cv
  /\ IF contactCheckProgram(cv)
     THEN /\ info' = [info EXCEPT !.message = MsgNotContactFree(input_data_poly.description),
                                  !.contact_results = cv,
                                  !.timed = TRUE]
          /\ pc' = "NotClear"
     ELSE /\ info' = [info EXCEPT !.message = MsgSucceeded, !.return_value = 1, !.timed = TRUE]
          /\ pc' = "Clear"

\* Faulty variant: the abort flag is read again before the validator runs.
Validation_rechecksAbort ==
  /\ pc = "Validation"
  /\ trace' = Append(trace, "Validation")
  /\ manager' = [active |-> input.env.links, config |-> cur_composite_profile]
  /\ IF input.aborted
     THEN /\ info' = [info EXCEPT !.message = MsgAborted]
          /\ pc' = "Aborted"
          /\ spy' = [spy EXCEPT !.abort_reads = @ + 1, !.reports = @ + 1]
          /\ UNCHANGED contacts
     ELSE /\ spy' = [spy EXCEPT !.abort_reads = @ + 1, !.validator_calls = @ + 1,
                                !.reports = @ + 1]
          /\ \E cv \in ContactVectors : Verdict(cv)
  /\ UNCHANGED <<nodes, ctor, input, self, input_data_poly, profile, cur_composite_profile, pre, cmp0>>

\* Lines 100-129: the contact manager is set up on the environment's copy and
\* the validator is called once.
Validation ==
  /\ pc = "Validation"
  /\ trace' = Append(trace, "Validation")
  /\ manager' = [active |-> input.env.links, config |-> cur_composite_profile]
  /\ spy' = [spy EXCEPT !.validator_calls = @ + 1, !.reports = @ + 1]
  /\ \E cv \in ContactVectors : Verdict(cv)
  /\ UNCHANGED <<nodes, ctor, input, self, input_data_poly, profile, cur_composite_profile, pre, cmp0>>

\* ------------------------------------------------------------ specifications
Init ==
  /\ nodes = [i \in Slots |-> NoNode]
  /\ ctor = [i \in Slots |-> NoCtor]
  /\ input = NoInput
  /\ pc = "Idle"
  /\ self = 1
  /\ info = NoInfo
  /\ input_data_poly = Null
  /\ profile = ""
  /\ cur_composite_profile = NullProfile
  /\ manager = NoManager
  /\ contacts = <<>>
  /\ spy = NoSpy
  /\ trace = <<>>
  /\ pre = NoPre
  /\ cmp0 = <<>>

Construct(i, conditionals) ==
  \/ DefaultConstruct(i)
  \/ \E name \in Names, key \in Keys, c \in conditionals : DirectConstruct(i, name, key, c)
  \/ \E name \in Names, config \in Configs :
        config.conditional \in conditionals /\ ConfigConstruct(i, name, config)

Run ==
  \/ Start
  \/ AbortCheck
  \/ InputValidation
  \/ ProfileResolution
  \/ Validation
  \/ SetAbort
  \/ Release

\* One node, every context.
Next ==
  \/ Construct(1, {TRUE})
  \/ \E ctx \in Contexts : Invoke(1, ctx)
  \/ Run

Spec == Init /\ [][Next]_vars

\* Two nodes side by side, for the comparison operators.
NextPeers ==
  \/ \E i \in Slots : Construct(i, BOOLEAN)
  \/ \E i \in Slots, ctx \in PeerContexts : Invoke(i, ctx)
  \/ Run

SpecPeers == Init /\ [][NextPeers]_vars

\* ================================================================ properties
Node == nodes[self]
Stages == <<"Start", "AbortCheck", "InputValidation", "ProfileResolution", "Validation">>
IsPrefix(s, t) == Len(s) <= Len(t) /\ SubSeq(t, 1, Len(s)) = s
BadValue(v) == v = Null \/ v.type # CompositeType
Bound == getData(input.data_storage, Node.input_keys[1])

\* C1: when the abort flag is set as run is invoked, run returns a Report with
\* message exactly "Aborted" and return_value 0, and that invocation reads no
\* data, resolves no profile and never calls the validator.
C1_AbortedRunDoesNothing ==
  /\ pc = "Aborted" =>
       /\ info.message = MsgAborted
       /\ info.return_value = 0
       /\ info.contact_results = <<>>
       /\ spy.reports = 1
  /\ pre.aborted =>
       /\ pc \in {"Start", "AbortCheck", "Aborted"}
       /\ spy.store_reads = 0
       /\ spy.resolutions = 0
       /\ spy.validator_calls = 0
       /\ input_data_poly = Null
       /\ cur_composite_profile = NullProfile
       /\ contacts = <<>>

C1_Witness ==
  /\ pc = "Aborted"
  /\ pre.aborted
  /\ Node.input_keys # <<>>
  /\ ~BadValue(Bound)

\* C2: a run that reaches the validator ends Clear, with return_value 1, no
\* contact_results and a message containing "succeeded", exactly when the
\* validator reports no contact, and otherwise ends NotClear, with
\* return_value 0, contact_results equal to the validator's contact vector and
\* a message containing "not contact free"; return_value 1 only in Clear.
C2_VerdictDecidesReport ==
  /\ spy.validator_calls >= 1 => pc \in {"Clear", "NotClear"}
  /\ pc = "Clear" =>
       /\ spy.validator_calls = 1
       /\ ~contactCheckProgram(contacts)
       /\ info.return_value = 1
       /\ info.contact_results = <<>>
       /\ Contains(info.message, <<"succeeded">>)
  /\ pc = "NotClear" =>
       /\ spy.validator_calls = 1
       /\ contactCheckProgram(contacts)
       /\ info.return_value = 0
       /\ info.contact_results = contacts
       /\ Contains(info.message, <<"not", "contact", "free">>)
  /\ info.return_value = 1 => pc = "Clear"

C2_Witness ==
  /\ pc = "NotClear"
  /\ Len(contacts) = 2
  /\ contacts[1] = {}
  /\ contacts[2] = {Contact}

\* C3: in a run that was not aborted, when the value bound to input_keys[0]
\* is null or is not a composite instruction, run returns a Report with
\* return_value 0 and a message naming the composite instruction, having
\* resolved no profile and not called the validator.
C3_BadInputIsReported ==
  ( /\ pc \in {"InvalidInput", "ProfileResolution", "Validation", "Clear", "NotClear", "Fault"}
    /\ Node.input_keys # <<>>
    /\ BadValue(Bound) )
  => /\ pc = "InvalidInput"
     /\ spy.reports = 1
     /\ info.return_value = 0
     /\ Contains(info.message, <<"composite", "instruction">>)
     /\ info.contact_results = <<>>
     /\ spy.resolutions = 0
     /\ spy.validator_calls = 0

C3_Witness ==
  /\ pc = "InvalidInput"
  /\ Node.input_keys # <<>>
  /\ Bound = WrongType

\* C4: construction from a configuration fails when the parsed input_keys is
\* empty (reported as a missing 'inputs' entry) or has two or more elements
\* (reported as only one input key being supported), and succeeds when it has
\* exactly one.
C4_ConfigConstruction ==
  \A i \in Slots :
    ctor[i].kind = "config" =>
      /\ Len(ctor[i].parsed) = 0 =>
           /\ ~nodes[i].built
           /\ Contains(ctor[i].error, <<"missing", "'inputs'", "entry">>)
      /\ Len(ctor[i].parsed) >= 2 =>
           /\ ~nodes[i].built
           /\ Contains(ctor[i].error, <<"only", "supports", "one", "input", "key">>)
      /\ Len(ctor[i].parsed) = 1 =>
           /\ nodes[i].built
           /\ ctor[i].error = NoError
           /\ nodes[i].input_keys = ctor[i].parsed

C4_Witness ==
  /\ ctor[1].kind = "config"
  /\ Len(ctor[1].parsed) = 2
  /\ ~nodes[1].built

\* C5: every constructed node, whichever constructor built it, has exactly
\* one element in input_keys, and run never indexes an empty input_keys.
C5_ExactlyOneKey ==
  /\ \A i \in Slots : nodes[i].built => Len(nodes[i].input_keys) = 1
  /\ ~spy.bad_index

\* C6: a run leaves the environment, the data store and the profile registry
\* as they were handed to it, also when the instruction carries a profile
\* override: the override shows in the effective profile only.
C6_SharedResourcesUntouched ==
  /\ pc # "Idle" =>
       /\ input.env = pre.env
       /\ input.data_storage = pre.data_storage
       /\ input.profiles = pre.profiles
  /\ (pc \in {"Validation", "Clear", "NotClear"} /\ input_data_poly.overrides) =>
       /\ cur_composite_profile.overridden
       /\ \A e \in DOMAIN input.profiles : ~input.profiles[e].overridden
  /\ pc \in {"Clear", "NotClear"} => manager.config = cur_composite_profile

C6_Witness ==
  /\ pc \in {"Clear", "NotClear"}
  /\ input_data_poly.overrides
  /\ <<Node.name, profile>> \in DOMAIN input.profiles
  /\ manager.config.overridden

Remapped(ns, name) == \E t \in input.remapping : t[1] = ns /\ t[2] = name

\* What C7 says of every resolution apart from the empty declared name: it
\* yields an effective profile, the registry's entry when there is one and a
\* default-constructed profile when there is none, with the override on top,
\* and run goes on to the validator.
ResolutionIsTotal ==
  /\ spy.resolutions >= 1 =>
       /\ spy.resolutions = 1
       /\ pc \in {"Validation", "Clear", "NotClear"}
       /\ cur_composite_profile # NullProfile
       /\ cur_composite_profile.overridden = input_data_poly.overrides
       /\ IF <<Node.name, profile>> \in DOMAIN input.profiles
          THEN cur_composite_profile.contact_manager_config =
                 input.profiles[<<Node.name, profile>>].contact_manager_config
          ELSE cur_composite_profile.contact_manager_config =
                 DefaultConstructedProfile.contact_manager_config
  /\ (pc \in Terminals /\ ~BadValue(input_data_poly)) => spy.validator_calls = 1

C8_StructuralEquality ==
  (nodes[1].built /\ nodes[2].built) =>
    /\ operatorEq(nodes[1], nodes[2]) <=>
         /\ nodes[1].name = nodes[2].name
         /\ nodes[1].is_conditional = nodes[2].is_conditional
         /\ nodes[1].input_keys = nodes[2].input_keys
    /\ operatorEq(nodes[2], nodes[1]) <=> operatorEq(nodes[1], nodes[2])
    /\ operatorNeq(nodes[1], nodes[2]) <=> ~operatorEq(nodes[1], nodes[2])
    /\ cmp0 = <<operatorEq(nodes[1], nodes[2])>>

C8_Witness ==
  /\ nodes[1].built
  /\ nodes[2].built
  /\ operatorEq(nodes[1], nodes[2])
  /\ ctor[1].kind # ctor[2].kind
  /\ self = 2
  /\ pc = "NotClear"
  /\ info.contact_results # <<>>

\* C9: every invocation of run goes through Start, AbortCheck,
\* InputValidation, ProfileResolution and Validation in that order, stops in
\* one of Aborted, InvalidInput, Clear and NotClear with exactly one Report,
\* and calls the validator at most once.
C9_RunStateMachine ==
  /\ pc \in {"Idle"} \cup Terminals \cup {Stages[k] : k \in 1..Len(Stages)}
  /\ IsPrefix(trace, Stages)
  /\ \A k \in 1..Len(Stages) : pc = Stages[k] => Len(trace) = k - 1
  /\ pc = "Aborted" => Len(trace) = 2
  /\ pc = "InvalidInput" => Len(trace) = 3
  /\ pc \in {"Clear", "NotClear"} => Len(trace) = 5
  /\ spy.reports = (IF pc \in Terminals THEN 1 ELSE 0)
  /\ spy.validator_calls <= 1

\* What the invocation returns when nobody aborts it, from what it read.
OutcomeOf(v, cv) ==
  IF BadValue(v) THEN "InvalidInput"
  ELSE IF contactCheckProgram(cv) THEN "NotClear" ELSE "Clear"

\* C10: the abort flag is read once per invocation, at the start and before
\* any other work; an abort raised after that check does not interrupt the
\* invocation, which returns InvalidInput, Clear or NotClear as its input and
\* the validator dictate, never Aborted.
C10_AbortReadOnceAtStart ==
  /\ spy.abort_reads = (IF pc \in {"Idle", "Start", "AbortCheck"} THEN 0 ELSE 1)
  /\ spy.abort_reads = 0 =>
       spy.store_reads = 0 /\ spy.resolutions = 0 /\ spy.validator_calls = 0
  /\ (spy.abort_reads = 1 /\ ~pre.aborted /\ pc # "Aborted") => ~spy.abort_seen
  /\ (spy.abort_reads = 1 /\ ~spy.abort_seen) => pc # "Aborted"
  /\ (pc \in Terminals /\ ~spy.abort_seen) =>
       /\ pc = OutcomeOf(input_data_poly, contacts)
       /\ info.message # MsgAborted

C10_Witness ==
  /\ pc = "Clear"
  /\ input.aborted
  /\ ~pre.aborted
  /\ ~spy.abort_seen

====
